---- MODULE Spec2Model ----
(***************************************************************************)
(* Model of client/solver.py: ProductionHJISolver.solve_phi_crit (the      *)
(* critical-fee bisection over a bounded inner maximisation),              *)
(* sync_to_chain (the per-tier aggregation and the publication) and the    *)
(* __main__ loop.                                                          *)
(*                                                                         *)
(* Numbers.  The code computes in floating point; the model computes the   *)
(* same expressions exactly.  A fee rate phi is carried as the integer     *)
(* phi * PhiScale, PhiScale = 2000 * 2^20, which makes 0.0005, 0.1 and     *)
(* every midpoint of the 20 halvings an integer.  Every other real is a    *)
(* reduced fraction <<n, d>>.  The gas price is carried in gwei, so the    *)
(* divisor 1e18 of the code is 1e9 here.  All values stay below 2^31.      *)
(***************************************************************************)
EXTENDS Integers, Sequences, FiniteSets, TLC

VARIABLES
    cfg,            \* self.cfg: strategy.ratio_tiers, market_assumptions.v_swap_nominal
    pc,             \* position of the main thread
    active,         \* sync_to_chain activations in progress
    L, tick, gp,    \* locals of sync_to_chain (line 51); Unset before the read
    i,              \* index of the tier the for loop of line 55 is at
    tiers_payload,  \* local list of sync_to_chain (line 54)
    low, high, k,   \* locals of solve_phi_crit (lines 43-47); k counts iterations
    phi,            \* the value solve_phi_crit returned last (line 56)
    calls,          \* solve_phi_crit invocations of the current cycle
    tx,             \* how far the cycle's transaction got (lines 62-70)
    prev,           \* history: inputs, table and outcome of the last cycle that built a table
    shape,          \* SpecBisect: the sign of maxProfit on each cell of the search range
    evals           \* SpecBisect: history of the iterations: mid, sign, bounds after

vars == <<cfg, pc, active, L, tick, gp, i, tiers_payload, low, high, k, phi,
          calls, tx, prev, shape, evals>>

----------------------------------------------------------------------------
(* Bounds of the model *)

MaxTiers == 2       \* longest configured ratio_tiers list
GridN == 4          \* the inner maximiser tries GridN + 1 attack sizes
ShapeCells == 7     \* cells on which an arbitrary maxProfit has one sign

(* Program constants *)

PhiScale == 2097152000      \* 2000 * 2^20: phi = 1.0
LOW == 1048576              \* 0.0005 * PhiScale
HIGH == 209715200           \* 0.1 * PhiScale
ITER == 20                  \* range(20)
BPS == 10000
GweiPerEth == 1000000000    \* 1e18 wei, with the gas price in gwei
PipsNum == 125              \* 1_000_000 / PhiScale = 125 / 262144
PipsDen == 262144

Unset == -1
None == [none |-> TRUE]

----------------------------------------------------------------------------
(* Exact arithmetic on non-negative fractions <<n, d>>, d > 0 *)

RECURSIVE GCD(_, _)
GCD(a, b) == IF b = 0 THEN a ELSE GCD(b, a % b)

Rat(n, d) == LET g == GCD(n, d) IN <<n \div g, d \div g>>

RMul(x, y) ==
    LET g1 == GCD(x[1], y[2])
        g2 == GCD(y[1], x[2])
    IN  Rat((x[1] \div g1) * (y[1] \div g2), (x[2] \div g2) * (y[2] \div g1))

RDiv(x, y) == RMul(x, <<y[2], y[1]>>)

RAdd(x, y) ==
    LET g == GCD(x[2], y[2])
    IN  Rat(x[1] * (y[2] \div g) + y[1] * (x[2] \div g), (x[2] \div g) * y[2])

\* -1, 0 or 1 as x < y, x = y, x > y; by continued fractions, so that no
\* product is formed
RECURSIVE RCmp(_, _)
RCmp(x, y) ==
    LET q1 == x[1] \div x[2]
        q2 == y[1] \div y[2]
        r1 == x[1] % x[2]
        r2 == y[1] % y[2]
    IN  IF q1 # q2 THEN (IF q1 < q2 THEN -1 ELSE 1)
        ELSE IF r1 = 0 /\ r2 = 0 THEN 0
        ELSE IF r1 = 0 THEN -1
        ELSE IF r2 = 0 THEN 1
        ELSE 0 - RCmp(<<x[2], r1>>, <<y[2], r2>>)

\* floor(x * m / d) for x >= 0, without forming x * m
MulDivFloor(x, m, d) == m * (x \div d) + (m * (x % d)) \div d

RECURSIVE Pow2(_)
Pow2(n) == IF n = 0 THEN 1 ELSE 2 * Pow2(n - 1)

Max3(S) == CHOOSE s \in S : \A t \in S : t <= s

----------------------------------------------------------------------------
(* solve_phi_crit: the profit model and the inner maximisation *)

\* config.yaml, market_assumptions: loaded once by __init__ (lines 17-18)
MarketAssumptions ==
    [jit_gas_usage |-> 300000, kappa |-> <<1, 1000000>>, v_swap_nominal |-> <<10, 1>>]

\* the values the configuration and the chain reads are drawn from
RatioSet == {50, 200}
LiquiditySet == {0, 10000, 1000000}
GasPriceSet == {1, 30}          \* gwei
TickSet == {-120, 60}

\* line 34: alpha = (L_active * ratio_bps) / 10000
alpha(ratio_bps, L_active) == RMul(<<L_active, 1>>, Rat(ratio_bps, BPS))

\* line 35: c_gas_eth = (gas_price * jit_gas_usage) / 1e18
c_gas_eth(gas_price) == Rat(gas_price * MarketAssumptions.jit_gas_usage, GweiPerEth)

\* line 39: bounds=(alpha * 0.8, alpha * 1.2); the attack sizes the bounded
\* maximiser is taken to try: GridN + 1 evenly spaced points, both ends included
attack_sizes(ratio_bps, L_active) ==
    { RMul(alpha(ratio_bps, L_active), Rat(8 * GridN + 4 * j, 10 * GridN)) :
        j \in 0 .. GridN }

\* line 38: phi * (a / (L_active + a)) * v_swap - (c_gas_eth + 0.5 * kappa * a**2)
\* is phi * capture - cost, and for a > 0 (capture > 0) it has the sign of
\* phi - cost / capture.  break_even is cost / capture.
break_even(a, L_active, gas_price, v_swap) ==
    LET capture == RMul(RDiv(a, RAdd(<<L_active, 1>>, a)), v_swap)
        cost == RAdd(c_gas_eth(gas_price),
                     RMul(RMul(<<1, 2>>, MarketAssumptions.kappa), RMul(a, a)))
    IN  RDiv(cost, capture)

\* the pairs <<inputs, break_even at every attack size tried>>, for every tier
\* and pool state with L_active > 0
BreakEvenTable ==
    { <<x, { break_even(a, x[2], x[3], x[4]) : a \in attack_sizes(x[1], x[2]) }>> :
        x \in RatioSet \X (LiquiditySet \ {0}) \X GasPriceSet
                 \X {MarketAssumptions.v_swap_nominal} }

BreakEvens(ratio_bps, L_active, gas_price, v_swap) ==
    (CHOOSE p \in BreakEvenTable : p[1] = <<ratio_bps, L_active, gas_price, v_swap>>)[2]

\* line 38: the sign of the profit at the fee rate ph and an attack size whose
\* break-even rate is be
profit_sign(ph, be) == RCmp(<<ph, PhiScale>>, be)

\* lines 36-42: the sign of max_profit_for_phi(phi): the largest profit found
max_profit_sign_negated(ph, ratio_bps, L_active, gas_price, v_swap) ==
    0 - Max3({ profit_sign(ph, be) :
                 be \in BreakEvens(ratio_bps, L_active, gas_price, v_swap) })
max_profit_sign(ph, ratio_bps, L_active, gas_price, v_swap) ==
    Max3({ profit_sign(ph, be) :
             be \in BreakEvens(ratio_bps, L_active, gas_price, v_swap) })

\* line 38 divides by L_active + a, and every a tried is a multiple of
\* L_active by a non-negative factor: the divisor is 0 exactly when L_active is
ZeroDivision(ratio_bps, L_active) == L_active = 0

----------------------------------------------------------------------------
(* solve_phi_crit: the bisection *)

\* line 43: low, high = 0.0005, 0.1
InitialBounds_wide == <<LOW, 5 * HIGH>>
InitialBounds == <<LOW, HIGH>>

\* line 45: mid = (low + high) / 2
Mid(lo, hi) == (lo + hi) \div 2

\* lines 46-47: if max_profit_for_phi(mid) > 0: low = mid / else: high = mid
BisectStep_swapped(lo, hi, sign) ==
    IF sign > 0 THEN <<lo, Mid(lo, hi)>> ELSE <<Mid(lo, hi), hi>>
BisectStep_geq(lo, hi, sign) ==
    IF sign >= 0 THEN <<Mid(lo, hi), hi>> ELSE <<lo, Mid(lo, hi)>>
BisectStep(lo, hi, sign) ==
    IF sign > 0 THEN <<Mid(lo, hi), hi>> ELSE <<lo, Mid(lo, hi)>>

\* line 48: return high
Returned_low(lo, hi) == lo
Returned(lo, hi) == hi

\* lines 43-47 as a function: the bounds <<low, high>> after n iterations
\* (b ranges over the one value of the bounds after n - 1 iterations)
RECURSIVE Bisect(_, _, _, _, _)
Bisect(n, ratio_bps, L_active, gas_price, v_swap) ==
    IF n = 0 THEN InitialBounds
    ELSE CHOOSE nb \in
             { BisectStep(b[1], b[2],
                   max_profit_sign(Mid(b[1], b[2]), ratio_bps, L_active, gas_price, v_swap)) :
                 b \in {Bisect(n - 1, ratio_bps, L_active, gas_price, v_swap)} } : TRUE

\* lines 32-48
solve_phi_crit(ratio_bps, L_active, gas_price, v_swap) ==
    LET b == Bisect(ITER, ratio_bps, L_active, gas_price, v_swap)
    IN  Returned(b[1], b[2])

\* line 59: int(phi * 1_000_000), which truncates
FeePips_round(ph) ==
    MulDivFloor(ph, PipsNum, PipsDen)
        + (IF 2 * ((PipsNum * (ph % PipsDen)) % PipsDen) >= PipsDen THEN 1 ELSE 0)
FeePips(ph) == MulDivFloor(ph, PipsNum, PipsDen)

\* lines 57-60
Record(r, ph) == [thresholdRatioBps |-> r, feePips |-> FeePips(ph)]

----------------------------------------------------------------------------
(* Configurations *)

RECURSIVE SeqsUpTo(_, _)
SeqsUpTo(S, n) ==
    IF n = 0 THEN {<< >>}
    ELSE LET shorter == SeqsUpTo(S, n - 1)
         IN  shorter \cup { Append(s, x) : s \in { t \in shorter : Len(t) = n - 1 }, x \in S }

\* config.yaml as __init__ loads it (lines 17-18)
Configs ==
    { [ratio_tiers |-> t, v_swap_nominal |-> MarketAssumptions.v_swap_nominal] :
        t \in SeqsUpTo(RatioSet, MaxTiers) }

InCycle == pc \in {"read", "check", "for", "bisect", "sign", "send", "print"}
TableBuilt == pc \in {"sign", "send", "print"} \/ (pc = "for" /\ i > Len(cfg.ratio_tiers))

----------------------------------------------------------------------------
(* The program: __main__ (lines 73-80) and sync_to_chain (lines 50-71) *)

Init ==
    /\ cfg \in Configs
    /\ pc = "loop"
    /\ active = 0
    /\ L = Unset /\ tick = Unset /\ gp = Unset
    /\ i = 0
    /\ tiers_payload = << >>
    /\ low = Unset /\ high = Unset /\ k = Unset
    /\ phi = Unset
    /\ calls = 0
    /\ tx = "none"
    /\ prev = None
    /\ shape = << >>
    /\ evals = << >>

\* an exception leaves sync_to_chain and reaches the handler of line 78; a
\* cycle that had built its table is remembered with its outcome
Raise ==
    /\ pc' = "except"
    /\ active' = active - 1
    /\ prev' = IF TableBuilt
               THEN [L |-> L, gp |-> gp, table |-> tiers_payload, ok |-> FALSE]
               ELSE prev

\* line 77: solver.sync_to_chain()
CallSync ==
    /\ pc = "loop"
    /\ pc' = "read"
    /\ active' = active + 1
    /\ L' = Unset /\ tick' = Unset /\ gp' = Unset
    /\ i' = 0
    /\ tiers_payload' = << >>
    /\ phi' = Unset
    /\ calls' = 0
    /\ tx' = "none"
    /\ UNCHANGED <<cfg, low, high, k, prev, shape, evals>>

\* line 51, get_realtime_state (lines 26-30): three reads of the chain, which
\* return a value or raise
ReadState ==
    /\ pc = "read"
    /\ \/ /\ \E l \in LiquiditySet, t \in TickSet, g \in GasPriceSet :
                L' = l /\ tick' = t /\ gp' = g
          /\ pc' = "check"
          /\ UNCHANGED <<active, prev>>
       \/ /\ Raise
          /\ UNCHANGED <<L, tick, gp>>
    /\ UNCHANGED <<cfg, i, tiers_payload, low, high, k, phi, calls, tx, shape, evals>>

\* line 52: if L == 0: return; line 54: tiers_payload = []
CheckLiquidity_unguarded ==
    /\ pc = "check"
    /\ pc' = "for" /\ i' = 1 /\ tiers_payload' = << >>
    /\ UNCHANGED <<cfg, active, L, tick, gp, low, high, k, phi, calls, tx, prev, shape, evals>>
CheckLiquidity ==
    /\ pc = "check"
    /\ IF L = 0
       THEN pc' = "sleep" /\ active' = active - 1 /\ UNCHANGED <<i, tiers_payload>>
       ELSE pc' = "for" /\ i' = 1 /\ tiers_payload' = << >> /\ UNCHANGED active
    /\ UNCHANGED <<cfg, L, tick, gp, low, high, k, phi, calls, tx, prev, shape, evals>>

\* lines 55-56: the next tier; solve_phi_crit is entered (line 43)
StartSolve_warm ==
    /\ pc = "for"
    /\ i <= Len(cfg.ratio_tiers)
    /\ pc' = "bisect"
    /\ calls' = calls + 1
    /\ low' = InitialBounds[1]
    /\ high' = IF high = Unset THEN InitialBounds[2] ELSE high
    /\ k' = 0
    /\ UNCHANGED <<cfg, active, L, tick, gp, i, tiers_payload, phi, tx, prev, shape, evals>>
StartSolve ==
    /\ pc = "for"
    /\ i <= Len(cfg.ratio_tiers)
    /\ pc' = "bisect"
    /\ calls' = calls + 1
    /\ low' = InitialBounds[1]
    /\ high' = InitialBounds[2]
    /\ k' = 0
    /\ UNCHANGED <<cfg, active, L, tick, gp, i, tiers_payload, phi, tx, prev, shape, evals>>

\* lines 44-47: one iteration of the bisection, with the profit model
Iterate ==
    /\ pc = "bisect"
    /\ k < ITER
    /\ IF ZeroDivision(cfg.ratio_tiers[i], L)
       THEN Raise /\ UNCHANGED <<low, high, k>>
       ELSE LET sign == max_profit_sign(Mid(low, high), cfg.ratio_tiers[i], L, gp,
                                        cfg.v_swap_nominal)
                b == BisectStep(low, high, sign)
            IN  /\ low' = b[1]
                /\ high' = b[2]
                /\ k' = k + 1
                /\ UNCHANGED <<pc, active, prev>>
    /\ UNCHANGED <<cfg, L, tick, gp, i, tiers_payload, phi, calls, tx, shape, evals>>

\* line 48 and lines 56-60: the value returned becomes the tier's record
ReturnAppend_dedup ==
    /\ pc = "bisect"
    /\ k = ITER
    /\ phi' = Returned(low, high)
    /\ tiers_payload' =
          IF \E j \in 1 .. Len(tiers_payload) :
                 tiers_payload[j].thresholdRatioBps = cfg.ratio_tiers[i]
          THEN tiers_payload
          ELSE Append(tiers_payload, Record(cfg.ratio_tiers[i], phi'))
    /\ i' = i + 1
    /\ pc' = "for"
    /\ UNCHANGED <<cfg, active, L, tick, gp, low, high, k, calls, tx, prev, shape, evals>>
ReturnAppend ==
    /\ pc = "bisect"
    /\ k = ITER
    /\ phi' = Returned(low, high)
    /\ tiers_payload' = Append(tiers_payload, Record(cfg.ratio_tiers[i], phi'))
    /\ i' = i + 1
    /\ pc' = "for"
    /\ UNCHANGED <<cfg, active, L, tick, gp, low, high, k, calls, tx, prev, shape, evals>>

\* lines 62-68: build_transaction, with the reads of the nonce and of the
\* priority fee, which return or raise
BuildTx ==
    /\ pc = "for"
    /\ i > Len(cfg.ratio_tiers)
    /\ \/ /\ tx' = "built"
          /\ pc' = "sign"
          /\ UNCHANGED <<active, prev>>
       \/ /\ Raise
          /\ UNCHANGED tx
    /\ UNCHANGED <<cfg, L, tick, gp, i, tiers_payload, low, high, k, phi, calls, shape, evals>>

\* line 69: sign_transaction
SignTx ==
    /\ pc = "sign"
    /\ tx' = "signed"
    /\ pc' = "send"
    /\ UNCHANGED <<cfg, active, L, tick, gp, i, tiers_payload, low, high, k, phi, calls,
                   prev, shape, evals>>

\* line 70: send_raw_transaction, which returns or raises
SendTx ==
    /\ pc = "send"
    /\ \/ /\ tx' = "sent"
          /\ pc' = "print"
          /\ UNCHANGED <<active, prev>>
       \/ /\ Raise
          /\ UNCHANGED tx
    /\ UNCHANGED <<cfg, L, tick, gp, i, tiers_payload, low, high, k, phi, calls, shape, evals>>

\* line 71: the report, and the return of sync_to_chain
PrintUpdated ==
    /\ pc = "print"
    /\ pc' = "sleep"
    /\ active' = active - 1
    /\ prev' = [L |-> L, gp |-> gp, table |-> tiers_payload, ok |-> TRUE]
    /\ UNCHANGED <<cfg, L, tick, gp, i, tiers_payload, low, high, k, phi, calls, tx,
                   shape, evals>>

\* lines 78-79: except Exception as e: print(...)
HandleException_exits ==
    /\ pc = "except"
    /\ pc' = "exit"
    /\ UNCHANGED <<cfg, active, L, tick, gp, i, tiers_payload, low, high, k, phi, calls,
                   tx, prev, shape, evals>>
HandleException ==
    /\ pc = "except"
    /\ pc' = "sleep"
    /\ UNCHANGED <<cfg, active, L, tick, gp, i, tiers_payload, low, high, k, phi, calls,
                   tx, prev, shape, evals>>

\* line 80: time.sleep(60), then the next turn of while True
Sleep ==
    /\ pc = "sleep"
    /\ pc' = "loop"
    /\ UNCHANGED <<cfg, active, L, tick, gp, i, tiers_payload, low, high, k, phi, calls,
                   tx, prev, shape, evals>>

Next ==
    \/ CallSync
    \/ ReadState
    \/ CheckLiquidity
    \/ StartSolve
    \/ Iterate
    \/ ReturnAppend
    \/ BuildTx
    \/ SignTx
    \/ SendTx
    \/ PrintUpdated
    \/ HandleException
    \/ Sleep

Spec == Init /\ [][Next]_vars

\* the main thread keeps running: every call returns or raises, and the sleep ends
LiveSpec == Spec /\ WF_vars(Next)

----------------------------------------------------------------------------
(* solve_phi_crit alone, for an arbitrary maxProfit: one call, for one tier, *)
(* where the sign of max_profit_for_phi is any function that is constant on *)
(* each of ShapeCells cells of the search range                             *)

Shapes == [0 .. ShapeCells - 1 -> {-1, 0, 1}]

CellWidth == (HIGH - LOW) \div ShapeCells

shape_sign(ph) ==
    LET c == (ph - LOW) \div CellWidth
    IN  shape[IF c > ShapeCells - 1 THEN ShapeCells - 1 ELSE c]

InitBisect ==
    /\ cfg \in { c \in Configs : Len(c.ratio_tiers) = 1 }
    /\ pc = "bisect"
    /\ active = 1
    /\ L = 10000 /\ tick = 60 /\ gp = 1
    /\ i = 1
    /\ tiers_payload = << >>
    /\ low = InitialBounds[1] /\ high = InitialBounds[2] /\ k = 0
    /\ phi = Unset
    /\ calls = 1
    /\ tx = "none"
    /\ prev = None
    /\ shape \in Shapes
    /\ evals = << >>

\* lines 44-47, with max_profit_for_phi(mid) of the sign the shape gives
IterateShape ==
    /\ pc = "bisect"
    /\ k < ITER
    /\ LET mid == Mid(low, high)
           b == BisectStep(low, high, shape_sign(mid))
       IN  /\ low' = b[1]
           /\ high' = b[2]
           /\ k' = k + 1
           /\ evals' = Append(evals, [mid |-> mid, sign |-> shape_sign(mid),
                                      low |-> b[1], high |-> b[2]])
    /\ UNCHANGED <<cfg, pc, active, L, tick, gp, i, tiers_payload, phi, calls, tx, prev, shape>>

NextBisect ==
    \/ IterateShape
    \/ ReturnAppend

SpecBisect == InitBisect /\ [][NextBisect]_vars

----------------------------------------------------------------------------
(* Properties *)

Tiers == cfg.ratio_tiers

\* the call of solve_phi_crit has returned and its record is appended
Solved == pc = "for" /\ i > 1 /\ k = ITER

\* the iterations whose maxProfit(mid) was not positive
NonPositive == { j \in 1 .. Len(evals) : evals[j].sign <= 0 }

\* somewhere a higher fee rate has the larger maxProfit: not non-increasing
ShapeNotMonotone == \E c1, c2 \in DOMAIN shape : c1 < c2 /\ shape[c1] < shape[c2]

\* C1: whatever the sign of maxProfit at each midpoint, the value
\* solve_phi_crit returns lies in [0.0005, 0.1].
C1_Bounded == Solved => (LOW <= phi /\ phi <= HIGH)

C1_Witness == Solved /\ ShapeNotMonotone /\ LOW < phi /\ phi < HIGH

C3_ZeroLiquiditySkips ==
    L = 0 =>
        /\ pc \in {"check", "sleep", "loop"}
        /\ calls = 0
        /\ tiers_payload = << >>
        /\ tx = "none"

\* a zero-liquidity cycle that has returned, after a cycle that built a table
C3_Witness == L = 0 /\ pc = "sleep" /\ prev # None

\* C4 as stated: the value returned is one of the evaluated midpoints, maxProfit
\* is not positive there, and no smaller evaluated midpoint has a non-positive
\* maxProfit.
C4_SmallestTestedNonPositive ==
    Solved =>
        /\ \E j \in NonPositive : evals[j].mid = phi
        /\ \A j \in NonPositive : phi <= evals[j].mid

\* C4 amended: that holds when some evaluated midpoint has a non-positive
\* maxProfit; when maxProfit is positive at every evaluated midpoint the value
\* returned is the initial upper bound 0.1, which was never evaluated.
C4_SmallestNonPositiveOrUpperBound ==
    Solved =>
        IF NonPositive # {}
        THEN /\ \E j \in NonPositive : evals[j].mid = phi
             /\ \A j \in NonPositive : phi <= evals[j].mid
        ELSE /\ phi = HIGH
             /\ \A j \in 1 .. Len(evals) : evals[j].mid # phi

\* the value returned is a midpoint where maxProfit is exactly 0, for a
\* maxProfit that is not monotonic
C4_Witness ==
    /\ Solved
    /\ ShapeNotMonotone
    /\ \E j \in 1 .. Len(evals) : evals[j].mid = phi /\ evals[j].sign = 0

\* the convergence scenario of the specification: activeLiquidity 1_000_000,
\* ratio 50, gas price 30 gwei, with the configured gas usage 300000,
\* kappa 1e-6 and swap volume 10; the call for the tier has returned
Scenario ==
    /\ Solved
    /\ Tiers[i - 1] = 50
    /\ L = 1000000
    /\ gp = 30
    /\ MarketAssumptions.jit_gas_usage = 300000
    /\ MarketAssumptions.kappa = <<1, 1000000>>
    /\ cfg.v_swap_nominal = <<10, 1>>

ScenarioSign(ph) == max_profit_sign(ph, 50, L, gp, cfg.v_swap_nominal)

\* C5 as stated: in the scenario maxProfit(phi*) <= 0 < maxProfit(phi* - epsilon),
\* with epsilon the width of the last bisection interval and the smallest
\* step of the fee rate.
C5_AtBoundary ==
    Scenario =>
        /\ ScenarioSign(phi) <= 0
        /\ ScenarioSign(low) > 0
        /\ ScenarioSign(phi - 1) > 0

\* C5 amended: in the scenario phi* is 0.0005 + 0.0995 / 2^20, the lowest value
\* the bisection can return (feePips 500); maxProfit is negative at phi*, just
\* below it and at both ends of the search range, so phi* is not at a boundary.
C5_BelowBoundary ==
    Scenario =>
        /\ phi = LOW + (HIGH - LOW) \div Pow2(ITER)
        /\ tiers_payload[i - 1].feePips = 500
        /\ ScenarioSign(phi) < 0
        /\ ScenarioSign(phi - 1) < 0
        /\ ScenarioSign(LOW) < 0
        /\ ScenarioSign(HIGH) < 0

C5_Witness == Scenario /\ low = LOW /\ high = phi

\* C6: for two tiers r1 < r2 of the configured list, solved on the pool state
\* of the cycle, solve_phi_crit(r1) <= solve_phi_crit(r2).
C6_MonotoneInRatio ==
    (pc = "sign") =>
        \A a, b \in 1 .. Len(Tiers) :
            Tiers[a] < Tiers[b] =>
                solve_phi_crit(Tiers[a], L, gp, cfg.v_swap_nominal)
                    <= solve_phi_crit(Tiers[b], L, gp, cfg.v_swap_nominal)

\* C7: while the loop over the tiers runs and when it ends, the table holds
\* one record per tier done, in the configured order, and the record at
\* position j is the one the tier Tiers[j] gives when solved alone on the
\* pool state of the cycle.
C7_TableMatchesTiers ==
    (pc = "for") =>
        /\ Len(tiers_payload) = i - 1
        /\ i <= Len(Tiers) + 1
        /\ \A j \in 1 .. Len(tiers_payload) :
              tiers_payload[j] =
                  Record(Tiers[j], solve_phi_crit(Tiers[j], L, gp, cfg.v_swap_nominal))

\* a complete table of two tiers configured in descending order, with
\* different fees
C7_Witness ==
    /\ pc = "for"
    /\ i = 3
    /\ Len(Tiers) = 2
    /\ Tiers[1] > Tiers[2]
    /\ tiers_payload[1].feePips # tiers_payload[2].feePips

\* C8: a cycle that reads the pool state (activeLiquidity, gasPrice) of an
\* earlier cycle builds the table that cycle built, whether the earlier
\* publication failed or not and whatever ran in between.
C8_Deterministic ==
    (TableBuilt /\ prev # None) =>
        ((prev.L = L /\ prev.gp = gp) => tiers_payload = prev.table)

\* a table rebuilt from the pool state of a cycle whose publication failed
C8_Witness ==
    /\ TableBuilt
    /\ prev # None
    /\ ~prev.ok
    /\ prev.L = L
    /\ prev.gp = gp
    /\ tiers_payload # << >>
    /\ tiers_payload = prev.table

\* C9: the bisection makes exactly 20 iterations, one evaluation of maxProfit
\* each, and then returns; iteration j moves low to mid when maxProfit(mid) > 0
\* and high to mid otherwise, leaving the other bound; after k iterations
\* 0.0005 <= low < high <= 0.1 and high - low = (0.1 - 0.0005) / 2^k.
C9_BisectionSteps ==
    /\ k \in 0 .. ITER
    /\ Len(evals) = k
    /\ (pc = "for") => (k = ITER)
    /\ (pc = "bisect") => ENABLED NextBisect
    /\ \A j \in 1 .. Len(evals) :
          LET e == evals[j]
              lo0 == IF j = 1 THEN LOW ELSE evals[j - 1].low
              hi0 == IF j = 1 THEN HIGH ELSE evals[j - 1].high
          IN  /\ 2 * e.mid = lo0 + hi0
              /\ IF e.sign > 0
                 THEN e.low = e.mid /\ e.high = hi0
                 ELSE e.high = e.mid /\ e.low = lo0
    /\ (k > 0) => (low = evals[k].low /\ high = evals[k].high)
    /\ LOW <= low /\ low < high /\ high <= HIGH
    /\ (HIGH - LOW) % Pow2(k) = 0
    /\ high - low = (HIGH - LOW) \div Pow2(k)

\* a finished bisection that met a positive, a zero and a negative maxProfit
C9_Witness ==
    /\ Solved
    /\ \E j \in 1 .. Len(evals) : evals[j].sign = 0
    /\ \E j \in 1 .. Len(evals) : evals[j].sign > 0
    /\ \E j \in 1 .. Len(evals) : evals[j].sign < 0

\* C10: at most one sync_to_chain is in progress; a cycle ends only by
\* returning to the sleep or by an exception, which the handler turns into the
\* sleep; the sleep is followed by the next call; and from every position a
\* new cycle is eventually started.
C10_MainLoop ==
    /\ [](active \in {0, 1} /\ (active = 1 <=> InCycle))
    /\ [][(InCycle /\ ~InCycle') => pc' \in {"sleep", "except"}]_vars
    /\ [][(pc = "except") => (pc' = "sleep")]_vars
    /\ [][(pc = "sleep") => (pc' = "loop")]_vars
    /\ [][(pc = "loop") => (pc' = "read")]_vars
    /\ []<>(pc = "read")
    /\ (pc = "except") ~> (pc = "read")

\* a cycle started after a cycle whose publication failed
C10_Witness == pc = "read" /\ prev # None /\ ~prev.ok

====
